---------------------------- MODULE Spec2Model ----------------------------
(* LearnIn30Days backend (src/main.py, src/schemas.py): the progress and   *)
(* gamification handlers over the "user" and "progress" collections.       *)
(*                                                                         *)
(* Spec     : every request handler runs as one atomic action (requests    *)
(*            served one after the other).                                 *)
(* ConcSpec : handlers are split at their store operations (find_one,      *)
(*            insert, update_one) and the steps of several requests        *)
(*            interleave, as FastAPI runs sync handlers on a thread pool.  *)
EXTENDS Integers, Sequences, FiniteSets, TLC

\* ---------------------------------------------------------------- bounds
\* Spec: dates 0..MaxDate, day numbers up to MaxDay, at most MaxCalls
\* completion requests.
MaxDate == 1
MaxDay == 2
MaxCalls == 2
\* LongSpec (one client, one challenge, long runs): dates 0..MaxLongDate,
\* at most MaxLongCalls completion requests.
MaxLongDate == 4
MaxLongCalls == 6
\* ConcSpec: dates 0..MaxConcDate, at most MaxRequests requests.
MaxConcDate == 1
MaxRequests == 3

Emails == {"a@x", "b@x"}
Slugs == {"ai-productivity", "design-foundations"}
\* payload.day is any int: the days of a challenge, and 0 and -1.
ValidDays == 1..MaxDay
Days == (0 - 1)..MaxDay
Procs == {1, 2}

\* ------------------------------------------------------------- documents
\* Python's None, as a stored field value and as the result of find_one.
None == <<>>

\* date.isoformat(): the stored string form of a date.
isoformat(d) == <<"iso", d>>

\* isinstance(v, str) for a stored last_completed_date.
isinstance_str(v) == Len(v) = 2 /\ v[1] = "iso"

\* date.fromisoformat(s).
fromisoformat(s) == s[2]

\* schemas.User with its defaults, as stored by create_document.
User(name, email) ==
    [name |-> name, email |-> email, points |-> 0, streak |-> 0,
     longest_streak |-> 0, badges |-> <<>>, is_active |-> TRUE]

\* schemas.Progress with its defaults, as stored by create_document.
Progress(email, slug) ==
    [user_email |-> email, challenge_slug |-> slug, current_day |-> 1,
     completed_days |-> <<>>, last_completed_date |-> None]

\* schemas.Challenge, as stored by create_document.
Challenge(title, slug, category, days) ==
    [title |-> title, slug |-> slug, category |-> category,
     difficulty |-> "Beginner", days |-> days]

\* Challenge(...) validates days: Field(30, ge=1, le=60).
ValidChallenge(payload) == payload.days >= 1 /\ payload.days <= 60

\* ----------------------------------------------------------------- store
\* A collection is the set of its documents. The _id of a document is kept in
\* its field id: the fields the handlers look documents up by, and the number
\* of documents with these fields inserted so far. Ids are unique, and among
\* the documents a lookup matches the smallest id is the oldest document.
Key(doc) ==
    IF "email" \in DOMAIN doc THEN <<doc.email>>
    ELSE IF "slug" \in DOMAIN doc THEN <<doc.slug>>
    ELSE <<doc.user_email, doc.challenge_slug>>

\* create_document(collection, model): insert the document under a new _id.
create_document(coll, doc) ==
    LET n == Cardinality({c \in coll : Key(c) = Key(doc)})
    IN coll \cup {[id |-> <<Key(doc), n + 1>>] @@ doc}

\* A filter is a record of field values, as the dict passed to find_one:
\* the documents of coll whose fields equal the filter's.
Matches(coll, filter) ==
    {c \in coll : \A k \in DOMAIN filter : c[k] = filter[k]}

\* find_one(filter): the first matching document, or None.
find_one(coll, filter) ==
    LET m == Matches(coll, filter)
    IN IF m = {} THEN None
       ELSE CHOOSE c \in m : \A o \in m : c.id[2] <= o.id[2]

\* Mutant: the update is applied to every document of the collection.
update_one_updates_all(coll, id, fields) ==
    {[k \in DOMAIN c |-> IF k \in DOMAIN fields THEN fields[k] ELSE c[k]] :
        c \in coll}

\* update_one({"_id": id}, {"$set": fields}).
update_one(coll, id, fields) ==
    {IF c.id = id
     THEN [k \in DOMAIN c |-> IF k \in DOMAIN fields THEN fields[k] ELSE c[k]]
     ELSE c : c \in coll}

\* ------------------------------------------------- complete_day's steps
Max(a, b) == IF a >= b THEN a ELSE b

\* x in list
Contains(list, x) == \E i \in 1..Len(list) : list[i] = x

\* Insert x into an ascending list, after the elements equal to it.
RECURSIVE InsertSorted(_, _)
InsertSorted(list, x) ==
    IF list = <<>> THEN <<x>>
    ELSE IF x < Head(list) THEN <<x>> \o list
    ELSE <<Head(list)>> \o InsertSorted(Tail(list), x)

\* sorted(list)
RECURSIVE sorted(_)
sorted(list) ==
    IF list = <<>> THEN <<>>
    ELSE InsertSorted(sorted(SubSeq(list, 1, Len(list) - 1)), list[Len(list)])

\* Mutant: the day is appended without the membership test.
Completed_always_appends(prog, day) == Append(prog.completed_days, day)

\* completed = prog["completed_days"]; append day unless it is in the list.
Completed(prog, day) ==
    IF Contains(prog.completed_days, day)
    THEN prog.completed_days
    ELSE Append(prog.completed_days, day)

\* last_date: the stored string parsed back to a date, or None.
LastDate(prog) ==
    IF isinstance_str(prog.last_completed_date)
    THEN <<fromisoformat(prog.last_completed_date)>>
    ELSE prog.last_completed_date

\* Mutant: a broken streak restarts at 0.
NewStreak_restarts_at_zero(streak, last_date, now) ==
    IF last_date = None THEN 1
    ELSE LET delta == now - last_date[1]
         IN IF delta = 1 THEN streak + 1
            ELSE IF delta = 0 THEN Max(1, streak)
            ELSE 0

\* Mutant: any later date continues the streak, gaps included.
NewStreak_ignores_gaps(streak, last_date, now) ==
    IF last_date = None THEN 1
    ELSE LET delta == now - last_date[1]
         IN IF delta >= 1 THEN streak + 1
            ELSE IF delta = 0 THEN Max(1, streak)
            ELSE 1

\* Mutant: a second completion on the same date counts for the streak.
NewStreak_counts_same_day(streak, last_date, now) ==
    IF last_date = None THEN 1
    ELSE LET delta == now - last_date[1]
         IN IF delta = 1 \/ delta = 0 THEN streak + 1
            ELSE 1

\* The streak logic.
NewStreak(streak, last_date, now) ==
    IF last_date = None THEN 1
    ELSE LET delta == now - last_date[1]
         IN IF delta = 1 THEN streak + 1
            ELSE IF delta = 0 THEN Max(1, streak)
            ELSE 1

\* Mutant: longest follows the streak down.
NewLongest_follows_streak(longest, streak) == streak

\* longest = max(longest, streak)
NewLongest(longest, streak) == Max(longest, streak)

\* Mutant: the bonus is never added.
NewPoints_without_bonus(points, streak) == points + 10

\* points: +10 per completion, +5 when the streak is a multiple of 5.
NewPoints(points, streak) ==
    IF streak % 5 = 0 THEN points + 10 + 5 ELSE points + 10

\* Mutant: current_day is the number of completed days plus one.
NewCurrentDay_counts_days(prog, day) == Len(Completed(prog, day)) + 1

\* Mutant: current_day is overwritten, without the max.
NewCurrentDay_overwrites(prog, day) == day + 1

\* Mutant: current_day stops at the completed day.
NewCurrentDay_stays_on_day(prog, day) == Max(prog.current_day, day)

\* current_day = max(prog["current_day"], day + 1)
NewCurrentDay(prog, day) == Max(prog.current_day, day + 1)

\* The $set of the progress update.
ProgressUpdate(prog, day, now) ==
    [completed_days |-> sorted(Completed(prog, day)),
     current_day |-> NewCurrentDay(prog, day),
     last_completed_date |-> isoformat(now)]

\* The $set of the user update.
UserUpdate(user, prog, now) ==
    LET streak == NewStreak(user.streak, LastDate(prog), now)
    IN [streak |-> streak,
        longest_streak |-> NewLongest(user.longest_streak, streak),
        points |-> NewPoints(user.points, streak)]


\* ----------------------------------------------------------------- state
VARIABLES
    users,      \* the "user" collection
    progress,   \* the "progress" collection
    today,      \* the calendar date the wall clock shows (date.today())
    resp,       \* the last response sent: its HTTP status
    ncalls,     \* number of requests received so far
    hist,       \* per email: the dates with a successful completion, the
                \* date and (slug, day) of the latest one, the largest
                \* streak ever stored, the number of successful completions
    procs,      \* ConcSpec: the requests in flight, one per worker thread
    challenges  \* the "challenge" collection

vars == <<users, progress, today, resp, ncalls, hist, procs, challenges>>

Idle == [pc |-> "idle"]

NoHist ==
    [dates |-> {}, latest |-> None, call |-> None, top |-> 0, done |-> 0]

Init ==
    /\ users = {}
    /\ progress = {}
    /\ today = 0
    /\ resp = [status |-> 0]
    /\ ncalls = 0
    /\ hist = [e \in Emails |-> NoHist]
    /\ procs = [p \in Procs |-> Idle]
    /\ challenges = {}

\* The filters the handlers pass to find_one.
ByEmail(email) == [email |-> email]
ByPair(email, slug) == [user_email |-> email, challenge_slug |-> slug]

\* The history after a successful completion of (slug, day) by email on the
\* date now that stored streak.
Record(email, slug, day, streak, now) ==
    [hist EXCEPT ![email] =
        [dates |-> @.dates \cup {now}, latest |-> <<now>>,
         call |-> <<slug, day>>, top |-> Max(@.top, streak),
         done |-> @.done + 1]]

\* -------------------------------------------- Spec: handlers, atomically
\* Mutant: the user is inserted without looking for an existing one.
create_or_get_user_always_creates(name, email) ==
    /\ users' = create_document(users, User(name, email))
    /\ resp' = [status |-> 200]
    /\ UNCHANGED <<challenges, progress, today, ncalls, hist, procs>>

\* POST /api/users
create_or_get_user(name, email) ==
    LET doc == find_one(users, ByEmail(email))
    IN /\ users' = IF doc # None THEN users
                   ELSE create_document(users, User(name, email))
       /\ resp' = [status |-> 200]
       /\ UNCHANGED <<challenges, progress, today, ncalls, hist, procs>>

\* Mutant: the record is inserted without looking for an existing one.
get_progress_always_creates(email, slug) ==
    /\ progress' = create_document(progress, Progress(email, slug))
    /\ resp' = [status |-> 200]
    /\ UNCHANGED <<challenges, users, today, ncalls, hist, procs>>

\* GET /api/progress/{email}/{slug}
get_progress(email, slug) ==
    LET doc == find_one(progress, ByPair(email, slug))
    IN /\ progress' = IF doc # None THEN progress
                      ELSE create_document(progress, Progress(email, slug))
       /\ resp' = [status |-> 200]
       /\ UNCHANGED <<challenges, users, today, ncalls, hist, procs>>

\* Mutant: the Progress record is created before the user is looked up.
complete_day_creates_first(email, slug, day) ==
    LET user == find_one(users, ByEmail(email))
        found == find_one(progress, ByPair(email, slug))
        created == IF found # None THEN progress
                   ELSE create_document(progress, Progress(email, slug))
        prog == IF found # None THEN found
                ELSE find_one(created, ByPair(email, slug))
    IN /\ ncalls' = ncalls + 1
       /\ IF user = None
          THEN /\ resp' = [status |-> 404]
               /\ progress' = created
               /\ UNCHANGED <<users, hist>>
          ELSE /\ progress' = update_one(created, prog.id,
                                         ProgressUpdate(prog, day, today))
               /\ users' = update_one(users, user.id,
                                      UserUpdate(user, prog, today))
               /\ hist' = Record(email, slug, day,
                                 UserUpdate(user, prog, today).streak, today)
               /\ resp' = [status |-> 200]
       /\ UNCHANGED <<challenges, today, procs>>

\* POST /api/progress/complete
complete_day(email, slug, day) ==
    LET user == find_one(users, ByEmail(email))
        found == find_one(progress, ByPair(email, slug))
        created == IF found # None THEN progress
                   ELSE create_document(progress, Progress(email, slug))
        prog == IF found # None THEN found
                ELSE find_one(created, ByPair(email, slug))
    IN /\ ncalls' = ncalls + 1
       /\ IF user = None
          THEN /\ resp' = [status |-> 404]
               /\ UNCHANGED <<users, progress, hist>>
          ELSE /\ progress' = update_one(created, prog.id,
                                         ProgressUpdate(prog, day, today))
               /\ users' = update_one(users, user.id,
                                      UserUpdate(user, prog, today))
               /\ hist' = Record(email, slug, day,
                                 UserUpdate(user, prog, today).streak, today)
               /\ resp' = [status |-> 200]
       /\ UNCHANGED <<challenges, today, procs>>

\* The wall clock passes midnight.
Tick ==
    /\ today' = today + 1
    /\ UNCHANGED <<challenges, users, progress, resp, ncalls, hist, procs>>

\* The wall clock is set back by a day (clock correction, time zone change).
ClockBack ==
    /\ today > 0
    /\ today' = today - 1
    /\ UNCHANGED <<challenges, users, progress, resp, ncalls, hist, procs>>

Next ==
    \/ \E email \in Emails : create_or_get_user("Ann", email)
    \/ \E email \in Emails, slug \in Slugs : get_progress(email, slug)
    \/ /\ ncalls < MaxCalls
       /\ \E email \in Emails, slug \in Slugs, day \in Days :
             complete_day(email, slug, day)
    \/ today < MaxDate /\ Tick

Spec == Init /\ [][Next]_vars

\* One client working through one challenge over many days.
LongNext ==
    \/ create_or_get_user("Ann", "a@x")
    \/ get_progress("a@x", "ai-productivity")
    \/ /\ ncalls < MaxLongCalls
       /\ \E day \in ValidDays : complete_day("a@x", "ai-productivity", day)
    \/ today < MaxLongDate /\ Tick
    \/ ClockBack

LongSpec == Init /\ [][LongNext]_vars


\* ------------------------- ConcSpec: handlers, one store operation a step
\* A worker thread takes a request: the handler starts at at with args.
Begin(p, at, args) ==
    /\ procs[p].pc = "idle"
    /\ procs' = [procs EXCEPT ![p] = [pc |-> at] @@ args]
    /\ ncalls' = ncalls + 1
    /\ UNCHANGED <<challenges, users, progress, today, resp, hist>>

\* The handler of p moves to pc at with its locals set as in locals.
Goto(p, at, locals) ==
    procs' = [procs EXCEPT ![p] = [pc |-> at] @@ locals @@ procs[p]]

\* The handler of p returns with an HTTP status.
Return(p, status) ==
    /\ procs' = [procs EXCEPT ![p] = Idle]
    /\ resp' = [status |-> status]

\* create_or_get_user: doc = users.find_one({"email": payload.email})
user_find(p) ==
    /\ procs[p].pc = "user_find"
    /\ IF find_one(users, ByEmail(procs[p].email)) # None
       THEN Return(p, 200)
       ELSE Goto(p, "user_create", <<>>) /\ UNCHANGED resp
    /\ UNCHANGED <<challenges, users, progress, today, ncalls, hist>>

\* create_or_get_user: create_document("user", user)
user_create(p) ==
    /\ procs[p].pc = "user_create"
    /\ users' = create_document(users, User(procs[p].name, procs[p].email))
    /\ Goto(p, "user_created", <<>>)
    /\ UNCHANGED <<challenges, progress, today, resp, ncalls, hist>>

\* create_or_get_user: created = users.find_one(...); return
user_created(p) ==
    /\ procs[p].pc = "user_created"
    /\ Return(p, 200)
    /\ UNCHANGED <<challenges, users, progress, today, ncalls, hist>>

\* get_progress: doc = find_one({"user_email": ..., "challenge_slug": ...})
progress_find(p) ==
    /\ procs[p].pc = "progress_find"
    /\ IF find_one(progress, ByPair(procs[p].email, procs[p].slug)) # None
       THEN Return(p, 200)
       ELSE Goto(p, "progress_create", <<>>) /\ UNCHANGED resp
    /\ UNCHANGED <<challenges, users, progress, today, ncalls, hist>>

\* get_progress: create_document("progress", progress)
progress_create(p) ==
    /\ procs[p].pc = "progress_create"
    /\ progress' = create_document(progress,
                                   Progress(procs[p].email, procs[p].slug))
    /\ Goto(p, "progress_created", <<>>)
    /\ UNCHANGED <<challenges, users, today, resp, ncalls, hist>>

\* get_progress: doc = find_one(...); return
progress_created(p) ==
    /\ procs[p].pc = "progress_created"
    /\ Return(p, 200)
    /\ UNCHANGED <<challenges, users, progress, today, ncalls, hist>>

\* complete_day: user = users.find_one({"email": ...}); 404 if not user
complete_find_user(p) ==
    LET user == find_one(users, ByEmail(procs[p].email))
    IN /\ procs[p].pc = "complete_find_user"
       /\ IF user = None
          THEN Return(p, 404)
          ELSE Goto(p, "complete_find_prog", [user |-> user])
               /\ UNCHANGED resp
       /\ UNCHANGED <<challenges, users, progress, today, ncalls, hist>>

\* complete_day: prog = prog_col.find_one({...})
complete_find_prog(p) ==
    LET prog == find_one(progress, ByPair(procs[p].email, procs[p].slug))
    IN /\ procs[p].pc = "complete_find_prog"
       /\ IF prog = None
          THEN Goto(p, "complete_create", <<>>)
          ELSE Goto(p, "complete_update_prog", [prog |-> prog])
       /\ UNCHANGED <<challenges, users, progress, today, resp, ncalls, hist>>

\* complete_day: create_document("progress", progress)
complete_create(p) ==
    /\ procs[p].pc = "complete_create"
    /\ progress' = create_document(progress,
                                   Progress(procs[p].email, procs[p].slug))
    /\ Goto(p, "complete_refind", <<>>)
    /\ UNCHANGED <<challenges, users, today, resp, ncalls, hist>>

\* complete_day: prog = prog_col.find_one({...}) after the insert
complete_refind(p) ==
    LET prog == find_one(progress, ByPair(procs[p].email, procs[p].slug))
    IN /\ procs[p].pc = "complete_refind"
       /\ Goto(p, "complete_update_prog", [prog |-> prog])
       /\ UNCHANGED <<challenges, users, progress, today, resp, ncalls, hist>>

\* Mutant: the Progress record and the User are written in one step.
complete_update_prog_and_user(p) ==
    LET me == procs[p]
    IN /\ me.pc = "complete_update_prog"
       /\ progress' = update_one(progress, me.prog.id,
                                 ProgressUpdate(me.prog, me.day, today))
       /\ users' = update_one(users, me.user.id,
                              UserUpdate(me.user, me.prog, today))
       /\ Goto(p, "complete_update_user",
               [stats |-> UserUpdate(me.user, me.prog, today),
                date |-> today])
       /\ UNCHANGED <<challenges, today, resp, ncalls, hist>>

\* complete_day: the streak, points and current_day computed from the
\* documents read, then prog_col.update_one
complete_update_prog(p) ==
    LET me == procs[p]
    IN /\ me.pc = "complete_update_prog"
       /\ progress' = update_one(progress, me.prog.id,
                                 ProgressUpdate(me.prog, me.day, today))
       /\ Goto(p, "complete_update_user",
               [stats |-> UserUpdate(me.user, me.prog, today),
                date |-> today])
       /\ UNCHANGED <<challenges, users, today, resp, ncalls, hist>>

\* Mutant: the stats are computed from the user document as it is stored
\* now, not from the one read when the request started.
complete_update_user_rereads(p) ==
    LET me == procs[p]
        now == find_one(users, [id |-> me.user.id])
    IN /\ me.pc = "complete_update_user"
       /\ users' = update_one(users, me.user.id,
                              UserUpdate(now, me.prog, me.date))
       /\ hist' = Record(me.email, me.slug, me.day, me.stats.streak,
                         me.date)
       /\ Goto(p, "complete_return", <<>>)
       /\ UNCHANGED <<challenges, progress, today, resp, ncalls>>

\* complete_day: users.update_one
complete_update_user(p) ==
    LET me == procs[p]
    IN /\ me.pc = "complete_update_user"
       /\ users' = update_one(users, me.user.id, me.stats)
       /\ hist' = Record(me.email, me.slug, me.day, me.stats.streak,
                         me.date)
       /\ Goto(p, "complete_return", <<>>)
       /\ UNCHANGED <<challenges, progress, today, resp, ncalls>>

\* complete_day: both documents are read again and returned
complete_return(p) ==
    /\ procs[p].pc = "complete_return"
    /\ Return(p, 200)
    /\ UNCHANGED <<challenges, users, progress, today, ncalls, hist>>

ConcNext ==
    \/ /\ ncalls < MaxRequests
       /\ \E p \in Procs, email \in Emails :
             Begin(p, "user_find", [name |-> "Ann", email |-> email])
    \/ /\ ncalls < MaxRequests
       /\ \E p \in Procs, email \in Emails, slug \in Slugs :
             Begin(p, "progress_find", [email |-> email, slug |-> slug])
    \/ /\ ncalls < MaxRequests
       /\ \E p \in Procs, email \in Emails, slug \in Slugs, day \in ValidDays :
             Begin(p, "complete_find_user",
                   [email |-> email, slug |-> slug, day |-> day])
    \/ \E p \in Procs : user_find(p)
    \/ \E p \in Procs : user_create(p)
    \/ \E p \in Procs : user_created(p)
    \/ \E p \in Procs : progress_find(p)
    \/ \E p \in Procs : progress_create(p)
    \/ \E p \in Procs : progress_created(p)
    \/ \E p \in Procs : complete_find_user(p)
    \/ \E p \in Procs : complete_find_prog(p)
    \/ \E p \in Procs : complete_create(p)
    \/ \E p \in Procs : complete_refind(p)
    \/ \E p \in Procs : complete_update_prog(p)
    \/ \E p \in Procs : complete_update_user(p)
    \/ \E p \in Procs : complete_return(p)
    \/ today < MaxConcDate /\ Tick

ConcSpec == Init /\ [][ConcNext]_vars

\* ------------------------------------------------------------- challenges
\* The bodies of POST /api/challenges: the slugs of the demo challenges and
\* one more, days inside and outside the range Challenge accepts.
ChallengeSlugs == Slugs \cup {"marketing-basics"}

Payloads ==
    [title : {"Intro", "Basics"}, slug : ChallengeSlugs, category : {"AI"},
     days : {0, 30, 60, 61}]

BySlug(slug) == [slug |-> slug]

\* The demo challenges list_challenges provides.
demo ==
    <<Challenge("AI Productivity in 30 Days", "ai-productivity", "AI", 30),
      Challenge("Design Foundations in 30 Days", "design-foundations",
                "Design", 30)>>

\* GET /api/challenges: the demo challenges are inserted when the collection
\* is empty.
list_challenges ==
    /\ challenges' =
          IF challenges = {}
          THEN create_document(create_document(challenges, demo[1]), demo[2])
          ELSE challenges
    /\ resp' = [status |-> 200]
    /\ UNCHANGED <<users, progress, today, ncalls, hist, procs>>

\* Mutant: the challenge is inserted without looking for its slug.
create_challenge_without_lookup(payload) ==
    /\ IF ~ValidChallenge(payload)
       THEN resp' = [status |-> 500] /\ UNCHANGED challenges
       ELSE /\ challenges' =
                  create_document(challenges,
                                  Challenge(payload.title, payload.slug,
                                            payload.category, payload.days))
            /\ resp' = [status |-> 200]
    /\ UNCHANGED <<users, progress, today, ncalls, hist, procs>>

\* POST /api/challenges: 400 when a challenge has the slug; Challenge(...)
\* raises on days out of range, which ends the request with a 500.
create_challenge(payload) ==
    LET exists == find_one(challenges, BySlug(payload.slug))
    IN /\ IF exists # None
          THEN resp' = [status |-> 400] /\ UNCHANGED challenges
          ELSE IF ~ValidChallenge(payload)
          THEN resp' = [status |-> 500] /\ UNCHANGED challenges
          ELSE /\ challenges' =
                     create_document(challenges,
                                     Challenge(payload.title, payload.slug,
                                               payload.category,
                                               payload.days))
               /\ resp' = [status |-> 200]
       /\ UNCHANGED <<users, progress, today, ncalls, hist, procs>>

ChallengeNext ==
    \/ list_challenges
    \/ \E payload \in Payloads : create_challenge(payload)

ChallengeSpec == Init /\ [][ChallengeNext]_vars

\* ------------------------------------------------------- failing requests
\* The positions of complete_day after its first database call.
CompletePoints ==
    {"complete_find_prog", "complete_create", "complete_refind",
     "complete_update_prog", "complete_update_user", "complete_return"}

\* complete_day has no try/except and no transaction: when its next database
\* call raises, the handler ends there, the client gets a 500 and what was
\* written before stays written.
Fail(p) ==
    /\ procs[p].pc \in CompletePoints
    /\ Return(p, 500)
    /\ UNCHANGED <<challenges, users, progress, today, ncalls, hist>>

\* One worker serving one request at a time, any step of complete_day may
\* fail.
FailNext ==
    \/ /\ ncalls < MaxRequests
       /\ \E email \in Emails :
             Begin(1, "user_find", [name |-> "Ann", email |-> email])
    \/ /\ ncalls < MaxRequests
       /\ \E email \in Emails, slug \in Slugs :
             Begin(1, "progress_find", [email |-> email, slug |-> slug])
    \/ /\ ncalls < MaxRequests
       /\ \E email \in Emails, slug \in Slugs, day \in ValidDays :
             Begin(1, "complete_find_user",
                   [email |-> email, slug |-> slug, day |-> day])
    \/ user_find(1)
    \/ user_create(1)
    \/ user_created(1)
    \/ progress_find(1)
    \/ progress_create(1)
    \/ progress_created(1)
    \/ complete_find_user(1)
    \/ complete_find_prog(1)
    \/ complete_create(1)
    \/ complete_refind(1)
    \/ complete_update_prog(1)
    \/ complete_update_user(1)
    \/ complete_return(1)
    \/ Fail(1)
    \/ today < MaxConcDate /\ Tick

FailSpec == Init /\ [][FailNext]_vars


\* ---------------------------------------------------------------- claims
UserOf(email) == find_one(users, ByEmail(email))
ProgOf(email, slug) == find_one(progress, ByPair(email, slug))

\* A complete_day(email, slug, day) step that finds the user.
Completes(email, slug, day) ==
    complete_day(email, slug, day) /\ UserOf(email) # None

\* The Progress record complete_day works on: the stored one, or a fresh one.
PrevProg(email, slug) ==
    IF ProgOf(email, slug) # None THEN ProgOf(email, slug)
    ELSE Progress(email, slug)

StrictlyIncreasing(list) ==
    \A i, j \in 1..Len(list) : i < j => list[i] < list[j]

\* C1: after every complete_day call, whatever the order of the day numbers
\* and however often a day is repeated, each stored completed_days list is
\* strictly increasing (ascending, no value twice).
C1_CompletedDaysStrictlyIncreasing ==
    \A g \in progress : StrictlyIncreasing(g.completed_days)

\* C1 witness: day 1 was completed last, after a later day, and one of the
\* days was completed more than once: the list still reads 1, 2.
C1_Witness ==
    /\ ProgOf("a@x", "ai-productivity") # None
    /\ ProgOf("a@x", "ai-productivity").completed_days = <<1, 2>>
    /\ hist["a@x"].call = <<"ai-productivity", 1>>
    /\ UserOf("a@x").points >= 30

\* C2: the current_day of a Progress record never decreases from one state
\* to the next, and every complete_day call sets it to
\* max(previous current_day, day + 1).
C2_CurrentDayMonotone ==
    [][/\ \A g \in progress : \A h \in progress' :
             h.id = g.id => h.current_day >= g.current_day
       /\ \A email \in Emails, slug \in Slugs, day \in Days :
             Completes(email, slug, day) =>
                LET before == PrevProg(email, slug).current_day
                IN ProgOf(email, slug)'.current_day =
                      IF before >= day + 1 THEN before ELSE day + 1]_vars

\* C2 witness: day 2 was completed first (current_day jumped to 3), then the
\* earlier day 1, which left current_day at 3.
C2_Witness ==
    /\ ProgOf("a@x", "ai-productivity") # None
    /\ ProgOf("a@x", "ai-productivity").current_day = 3
    /\ ProgOf("a@x", "ai-productivity").completed_days = <<1, 2>>
    /\ hist["a@x"].call = <<"ai-productivity", 1>>
    /\ ncalls = 2

\* The streak the claim states, from the user's previous streak S, the
\* Progress record's previous last_completed_date D0 and today's date.
ClaimedStreak(S, D0, now) ==
    IF D0 = None THEN 1
    ELSE IF now = D0[1] + 1 THEN S + 1
    ELSE IF now = D0[1] THEN (IF S >= 1 THEN S ELSE 1)
    ELSE 1

\* C3: the streak complete_day writes is 1 if the record has no previous
\* completion date, S + 1 one day after it, max(1, S) on the same date, and
\* 1 two or more days after it or before it.
C3_StreakFunction ==
    [][\A email \in Emails, slug \in Slugs, day \in Days :
          Completes(email, slug, day) =>
             UserOf(email)'.streak =
                ClaimedStreak(UserOf(email).streak,
                              LastDate(PrevProg(email, slug)), today)]_vars

\* C3 witness: a streak of 3 built on three consecutive dates.
C3_Witness ==
    /\ UserOf("a@x") # None
    /\ UserOf("a@x").streak = 3
    /\ hist["a@x"].dates = {0, 1, 2}

\* C4: every successful complete_day call raises the points by 15 when the
\* resulting streak is a multiple of 5 and by 10 otherwise, also when the
\* day was already completed.
C4_PointsAwarded ==
    [][\A email \in Emails, slug \in Slugs, day \in Days :
          Completes(email, slug, day) =>
             UserOf(email)'.points - UserOf(email).points =
                IF UserOf(email)'.streak % 5 = 0 THEN 15 ELSE 10]_vars

\* C4 witness: the fifth completion in a row reached streak 5 and paid 15.
C4_Witness ==
    /\ UserOf("a@x") # None
    /\ UserOf("a@x").streak = 5
    /\ UserOf("a@x").points = 55

\* The day is already in the record's completed_days and the record's
\* last_completed_date is today.
RepeatToday(email, slug, day) ==
    /\ ProgOf(email, slug) # None
    /\ Contains(ProgOf(email, slug).completed_days, day)
    /\ LastDate(ProgOf(email, slug)) = <<today>>

\* The user's latest completion was this day of this challenge, today.
SameCallAgain(email, slug, day) ==
    /\ hist[email].call = <<slug, day>>
    /\ hist[email].latest = <<today>>

RECURSIVE RunLength(_, _)
RunLength(ds, t) == IF t \in ds THEN 1 + RunLength(ds, t - 1) ELSE 0

\* C6: the streak of a user who has completed something equals the number of
\* consecutive calendar days, ending with the day of the latest completion,
\* on each of which the user made a completion.
C6_StreakCountsConsecutiveDays ==
    \A email \in Emails :
       hist[email].latest # None =>
          UserOf(email).streak =
             RunLength(hist[email].dates, hist[email].latest[1])

\* C7: longest_streak never decreases, every complete_day call sets it to
\* max(previous longest_streak, new streak), and it equals the largest
\* streak the user has ever held.
C7_LongestHighWater ==
    [][/\ \A u \in users : \A v \in users' :
             v.id = u.id => v.longest_streak >= u.longest_streak
       /\ \A email \in Emails, slug \in Slugs, day \in Days :
             Completes(email, slug, day) =>
                LET longest == UserOf(email).longest_streak
                    streak == UserOf(email)'.streak
                IN UserOf(email)'.longest_streak =
                      IF streak > longest THEN streak ELSE longest
       /\ \A v \in users' : v.longest_streak = hist'[v.email].top]_vars

\* C7 witness: a streak of 3 was reset to 1 by a gap and longest_streak
\* stayed 3.
C7_Witness ==
    /\ UserOf("a@x") # None
    /\ UserOf("a@x").streak = 1
    /\ UserOf("a@x").longest_streak = 3

\* C8: complete_day for an email without a User answers 404 and leaves
\* both collections as they were.
C8_UnknownUserNotFound ==
    [][\A email \in Emails, slug \in Slugs, day \in Days :
          (complete_day(email, slug, day) /\ UserOf(email) = None) =>
             /\ resp'.status = 404
             /\ users' = users
             /\ progress' = progress]_vars

\* C8 witness: a completion request was answered 404 while the other
\* user and a Progress record exist.
C8_Witness ==
    /\ resp.status = 404
    /\ ncalls > 0
    /\ UserOf("a@x") = None
    /\ UserOf("b@x") # None
    /\ progress # {}

\* C9: for each (user email, challenge slug) at most one Progress document
\* exists.
C9_OneProgressPerPair ==
    \A g \in progress : \A h \in progress :
       (g.user_email = h.user_email /\ g.challenge_slug = h.challenge_slug)
          => g = h

\* C10: for a user with points 0, streak 0 and longest_streak 0 and no
\* Progress record for the challenge, complete_day with day >= 1 creates the
\* record and yields streak 1, longest_streak 1, points 10,
\* current_day = day + 1, completed_days = [day], last_completed_date = today.
C10_FirstCompletion ==
    [][\A email \in Emails, slug \in Slugs, day \in Days :
          (/\ Completes(email, slug, day)
           /\ day >= 1
           /\ UserOf(email).points = 0
           /\ UserOf(email).streak = 0
           /\ UserOf(email).longest_streak = 0
           /\ ProgOf(email, slug) = None) =>
             /\ UserOf(email)'.streak = 1
             /\ UserOf(email)'.longest_streak = 1
             /\ UserOf(email)'.points = 10
             /\ Cardinality(Matches(progress', ByPair(email, slug))) = 1
             /\ ProgOf(email, slug)'.current_day = day + 1
             /\ ProgOf(email, slug)'.completed_days = <<day>>
             /\ LastDate(ProgOf(email, slug)') = <<today>>]_vars

\* C10 witness: the first completion of a new user, of day 2 on date 1.
C10_Witness ==
    /\ ncalls = 1
    /\ UserOf("a@x") # None
    /\ UserOf("a@x").points = 10
    /\ UserOf("a@x").streak = 1
    /\ UserOf("a@x").longest_streak = 1
    /\ ProgOf("a@x", "ai-productivity") # None
    /\ ProgOf("a@x", "ai-productivity").completed_days = <<2>>
    /\ ProgOf("a@x", "ai-productivity").current_day = 3
    /\ LastDate(ProgOf("a@x", "ai-productivity")) = <<1>>

\* No request is running.
Quiet == \A p \in Procs : procs[p].pc = "idle"

\* The values of a list.
Elements(list) == {list[i] : i \in 1..Len(list)}

\* C11: nothing locks complete_day's read-compute-write sequence. The user
\* write stores the points the request computed from the user document it
\* read at its start, and the progress write the completed_days and
\* current_day computed from the Progress record it read, whatever the store
\* holds by then: what another request wrote in between is overwritten.
C11_WritesFromOwnReads ==
    [][\A p \in Procs :
          /\ complete_update_user(p) =>
                \A u \in users' :
                   u.id = procs[p].user.id =>
                      u.points \in {procs[p].user.points + 10,
                                    procs[p].user.points + 15}
          /\ complete_update_prog(p) =>
                \A g \in progress' :
                   g.id = procs[p].prog.id =>
                      /\ Elements(g.completed_days) =
                            Elements(procs[p].prog.completed_days)
                               \cup {procs[p].day}
                      /\ g.current_day \in {procs[p].prog.current_day,
                                            procs[p].day + 1}]_vars

\* C11 witness: two complete_day requests of a@x for ai-productivity, days 1
\* and 2, have both succeeded and returned, the one for day 2 writing the
\* user last; the user has the points of one completion and the record
\* holds day 1 only, with current_day 2.
C11_Witness ==
    /\ Quiet
    /\ hist["a@x"].done = 2
    /\ UserOf("a@x").points = 10
    /\ Cardinality(Matches(progress, ByPair("a@x", "ai-productivity"))) = 1
    /\ hist["a@x"].call = <<"ai-productivity", 2>>
    /\ ProgOf("a@x", "ai-productivity").completed_days = <<1>>
    /\ ProgOf("a@x", "ai-productivity").current_day = 2
    /\ \A g \in progress : g.challenge_slug = "ai-productivity"

\* The fields of a document other than its _id.
Fields(doc) == [k \in DOMAIN doc \ {"id"} |-> doc[k]]

\* C12: get_progress leaves an existing Progress record of (email, slug) and
\* everything else as it is; when there is none it adds exactly one record,
\* with current_day 1, no completed days and no last_completed_date, and
\* changes no User and no other Progress record.
C12_GetProgressFrame ==
    [][\A email \in Emails, slug \in Slugs :
          get_progress(email, slug) =>
             /\ users' = users
             /\ IF ProgOf(email, slug) # None
                THEN progress' = progress
                ELSE /\ progress \subseteq progress'
                     /\ Cardinality(progress' \ progress) = 1
                     /\ \A g \in progress' \ progress :
                           Fields(g) =
                              [user_email |-> email, challenge_slug |-> slug,
                               current_day |-> 1, completed_days |-> <<>>,
                               last_completed_date |-> None]]_vars

\* C12 witness: a@x has no User, so only get_progress can have made its
\* record, which is fresh; b@x's record with a completed day is still there.
C12_Witness ==
    /\ UserOf("a@x") = None
    /\ ProgOf("a@x", "ai-productivity") # None
    /\ ProgOf("a@x", "ai-productivity").current_day = 1
    /\ ProgOf("a@x", "ai-productivity").completed_days = <<>>
    /\ ProgOf("a@x", "ai-productivity").last_completed_date = None
    /\ ProgOf("b@x", "ai-productivity") # None
    /\ ProgOf("b@x", "ai-productivity").completed_days = <<2>>
    /\ UserOf("b@x").points = 10

\* The fields of a User that complete_day sets.
Stats == {"streak", "longest_streak", "points"}

\* C13: a successful complete_day(email, slug, day) changes nothing but the
\* streak, longest_streak and points of the User with that email and the
\* Progress record of (email, slug): every other User and Progress record,
\* and the user's other fields, stay as they are.
C13_CompleteDayFrame ==
    [][\A email \in Emails, slug \in Slugs, day \in Days :
          Completes(email, slug, day) =>
             /\ {u \in users' : u.email # email} =
                   {u \in users : u.email # email}
             /\ \A u \in users : u.email = email =>
                   \E v \in users' :
                      \A k \in DOMAIN u \ Stats : v[k] = u[k]
             /\ Cardinality(users') = Cardinality(users)
             /\ progress' \ Matches(progress', ByPair(email, slug)) =
                   progress \ Matches(progress, ByPair(email, slug))]_vars

\* C13 witness: both users have completed a day, a@x in both challenges:
\* three records and two users, each with its own values.
C13_Witness ==
    /\ UserOf("a@x") # None /\ UserOf("b@x") # None
    /\ UserOf("a@x").points = 10
    /\ UserOf("b@x").points = 10
    /\ ProgOf("a@x", "ai-productivity") # None
    /\ ProgOf("a@x", "ai-productivity").completed_days = <<1>>
    /\ ProgOf("a@x", "design-foundations") # None
    /\ ProgOf("a@x", "design-foundations").completed_days = <<>>
    /\ ProgOf("b@x", "ai-productivity") # None
    /\ ProgOf("b@x", "ai-productivity").completed_days = <<2>>

\* C14: complete_day writes the Progress record first and the User second,
\* in two steps: the first leaves every User as it was and stores the day,
\* the date and current_day; when the request ends between the two, nothing
\* is undone: the Progress record keeps the new values and the User the old
\* ones.
C14_ProgressThenUser ==
    [][\A p \in Procs :
          /\ complete_update_prog(p) =>
                /\ users' = users
                /\ procs'[p].pc = "complete_update_user"
                /\ \E g \in progress' :
                      /\ g.id = procs[p].prog.id
                      /\ Contains(g.completed_days, procs[p].day)
                      /\ g.current_day > procs[p].day
                      /\ g.last_completed_date = isoformat(today)
          /\ Fail(p) /\ procs[p].pc = "complete_update_user" =>
                /\ resp'.status = 500
                /\ procs[p].user \in users'
                /\ hist' = hist
                /\ progress' = progress
                /\ \E g \in progress' :
                      /\ g.id = procs[p].prog.id
                      /\ Contains(g.completed_days, procs[p].day)
                      /\ g.current_day > procs[p].day
                      /\ g.last_completed_date = isoformat(procs[p].date)]_vars

\* C14 witness: the only complete_day request so far has ended with a 500
\* after its first write: day 1 is completed in the record, the user has no
\* point and no streak.
C14_Witness ==
    /\ Quiet
    /\ resp.status = 500
    /\ hist["a@x"].done = 0
    /\ ProgOf("a@x", "ai-productivity") # None
    /\ ProgOf("a@x", "ai-productivity").completed_days = <<1>>
    /\ ProgOf("a@x", "ai-productivity").current_day = 2
    /\ ProgOf("a@x", "ai-productivity").last_completed_date = isoformat(today)
    /\ UserOf("a@x") # None
    /\ UserOf("a@x").points = 0
    /\ UserOf("a@x").streak = 0
    /\ UserOf("a@x").longest_streak = 0

\* C15: create_or_get_user with an email that has a User changes nothing;
\* with an unknown email it adds exactly one User, with points, streak and
\* longest_streak 0. So on every step of calls made one after the other: a
\* stored User changes only in a successful complete_day for its email, no
\* User disappears, and no two Users have the same email.
C15_UsersCreatedOnce ==
    [][/\ \A email \in Emails :
             create_or_get_user("Ann", email) =>
                /\ progress' = progress
                /\ resp'.status = 200
                /\ IF UserOf(email) # None
                   THEN users' = users
                   ELSE /\ users \subseteq users'
                        /\ Cardinality(users' \ users) = 1
                        /\ \A u \in users' \ users :
                              Fields(u) =
                                 [name |-> "Ann", email |-> email,
                                  points |-> 0, streak |-> 0,
                                  longest_streak |-> 0, badges |-> <<>>,
                                  is_active |-> TRUE]
       /\ \A u \in users : \E v \in users' : v.id = u.id
       /\ \A u \in users \ users' :
             \E slug \in Slugs, day \in Days : Completes(u.email, slug, day)
       /\ \A u, v \in users' : u.email = v.email => u = v]_vars

\* C15 witness: a@x has completed a day and has points and a streak, b@x is
\* as created; one User each.
C15_Witness ==
    /\ Cardinality(users) = 2
    /\ UserOf("a@x") # None /\ UserOf("b@x") # None
    /\ UserOf("a@x").points = 10
    /\ UserOf("a@x").streak = 1
    /\ UserOf("a@x").longest_streak = 1
    /\ hist["a@x"].done = 1
    /\ UserOf("b@x").points = 0
    /\ UserOf("b@x").streak = 0
    /\ UserOf("b@x").longest_streak = 0
    /\ hist["b@x"].done = 0
    /\ progress = {ProgOf("a@x", "ai-productivity")}

\* C17: create_challenge with a slug that a stored Challenge has answers with
\* a client error (4xx) and leaves the collection as it is; after every step
\* no two stored Challenges have the same slug.
C17_SlugsStayUnique ==
    [][/\ \A payload \in Payloads :
             create_challenge(payload)
                /\ find_one(challenges, BySlug(payload.slug)) # None =>
                   /\ resp'.status >= 400 /\ resp'.status < 500
                   /\ challenges' = challenges
       /\ \A c, d \in challenges' : c.slug = d.slug => c = d]_vars

\* C17 witness: the two demo challenges and one created with another slug
\* are stored, and the last create_challenge was refused with a 400.
C17_Witness ==
    /\ resp.status = 400
    /\ Cardinality(challenges) = 3
    /\ \A slug \in ChallengeSlugs : find_one(challenges, BySlug(slug)) # None
    /\ find_one(challenges, BySlug("ai-productivity")).title = demo[1].title
    /\ find_one(challenges, BySlug("marketing-basics")).title = "Basics"

\* The largest element of a non-empty list of numbers.
MaxOf(list) ==
    CHOOSE m \in Elements(list) : \A n \in Elements(list) : n <= m

\* C18: a Progress record whose completed days are all >= 1 (it was changed
\* only by complete_day calls with day >= 1, one at a time) has current_day 1
\* when completed_days is empty and the largest completed day plus one
\* otherwise; so current_day >= 1 and current_day is not a completed day.
C18_CurrentDayPastCompleted ==
    \A g \in progress :
       (\A n \in Elements(g.completed_days) : n >= 1) =>
          /\ g.current_day =
                IF g.completed_days = <<>> THEN 1
                ELSE MaxOf(g.completed_days) + 1
          /\ g.current_day >= 1
          /\ ~Contains(g.completed_days, g.current_day)

\* C18 witness: day 2 was completed before day 1: the record holds both and
\* current_day is 3; another record is still empty with current_day 1.
C18_Witness ==
    /\ ProgOf("a@x", "ai-productivity") # None
    /\ ProgOf("a@x", "ai-productivity").completed_days = <<1, 2>>
    /\ ProgOf("a@x", "ai-productivity").current_day = 3
    /\ hist["a@x"].call = <<"ai-productivity", 1>>
    /\ ProgOf("b@x", "ai-productivity") # None
    /\ ProgOf("b@x", "ai-productivity").completed_days = <<>>
    /\ ProgOf("b@x", "ai-productivity").current_day = 1

\* C19: after every step each User has longest_streak >= streak >= 0, and
\* streak >= 1 once a complete_day call for it has succeeded; a step that
\* adds the bonus (15 points) stores a streak that is a positive multiple
\* of 5.
C19_StreakBounds ==
    [][\A v \in users' :
          /\ v.longest_streak >= v.streak
          /\ v.streak >= 0
          /\ hist'[v.email].done > 0 => v.streak >= 1
          /\ \A u \in users :
                u.id = v.id /\ v.points = u.points + 15 =>
                   v.streak % 5 = 0 /\ v.streak >= 5]_vars

\* C19 witness: five consecutive days gave streak 5 and the bonus, then a
\* completion on an earlier date restarted the streak at 1 with longest 5.
C19_Witness ==
    /\ UserOf("a@x") # None
    /\ hist["a@x"].done = 6
    /\ UserOf("a@x").streak = 1
    /\ UserOf("a@x").longest_streak = 5
    /\ UserOf("a@x").points = 65

=============================================================================
